---- MODULE Spec2Model ----
(***************************************************************************)
(* Model of setup-healthcare-relocation-workflow.mjs: the provisioning     *)
(* script that authenticates against a Conductor server and then creates,  *)
(* kind by kind, the integration, models, task definitions, form           *)
(* templates, prompts and workflows that are missing remotely.             *)
(*                                                                         *)
(* One action per step of main().  A network call is two steps: Issue      *)
(* puts the request in flight, and the action of the statement that awaits *)
(* it takes the answer.  The remote server is the variable remote; its     *)
(* answers are drawn from the statuses a server can give.                  *)
(***************************************************************************)
EXTENDS Integers, Sequences, FiniteSets, TLC

\* ---------------------------------------------------------------- bounds
MaxTasks   == 2   \* how many of WORKER_TASKS are modelled
MaxPrompts == 2   \* how many of REQUIRED_PROMPTS are modelled
MaxModels  == 1   \* how many of DEFAULT_OPENAI_MODELS are modelled
MaxFiles   == 2   \* longest list of form / workflow files
MaxFaults  == 1   \* network calls that fail although the server is healthy

\* ------------------------------------------------------ program constants
AllWorkerTasks ==
  << "healthcare_provider_finder", "communication_drafter",
     "medical_system_navigator", "prescription_transition_manager" >>
WORKER_TASKS == SubSeq(AllWorkerTasks, 1, MaxTasks)

AllRequiredPrompts ==
  << "MedicalUserIntakeAnalyzer", "CombineAnswers", "AssembleHealthPlan" >>
REQUIRED_PROMPTS == SubSeq(AllRequiredPrompts, 1, MaxPrompts)

AllOpenAiModels == << "gpt-4.1", "gpt-4.1-mini", "gpt-4o", "gpt-4o-mini" >>
DEFAULT_OPENAI_MODELS == SubSeq(AllOpenAiModels, 1, MaxModels)

openaiIntegrationName == "openai"

\* names a form or workflow document can declare; NoName is a document
\* whose name field is absent or empty
NoName    == ""
FormNames == {"intake_form", "review_form"}
WfNames   == {"relocation_wf", "followup_wf"}

Kinds == {"integration", "model", "taskdef", "form", "prompt", "workflow"}
Runs  == {1, 2}

\* HTTP statuses the server answers with; Throw is fetch() rejecting
\* (network failure), NoCall is "no request was made"
Throw  == 0
NoCall == -1

RangeOf(s) == {s[k] : k \in 1..Len(s)}
SeqsUpTo(S, n) == UNION {[1..k -> S] : k \in 0..n}

VARIABLES
  cfg,             \* flags and environment: fixed for the behaviour
  fsys,            \* local source directories: fixed for the behaviour
  run,             \* which invocation of the script is executing
  pc,              \* position in main()
  i,               \* index of the loop of the current pass
  token,           \* the credential ("" is undefined)
  userInfo,        \* id from /token/userInfo ("" is undefined)
  remote,          \* resources on the server: set of <<kind, name>>
  existingNames,   \* forms pass: names of the templates listed
  missingTaskDefs, \* task defs pass: the batch being collected
  created,         \* per kind: modelsAdded, formsCreated, ...
  skipped,         \* per kind: modelsSkipped, formsSkipped, ...
  faults,          \* per run: calls that failed so far
  sent,            \* per run: requests that reached the network, in order
  suppressed,      \* per run: requests http() swallowed in plan mode
  inFlight,        \* requests that left and are not answered yet, in order
  verdict,         \* per run: <<kind, index, name, exists>> decided
  outcome,         \* per run: "idle", "running", "done", "aborted"
  error,           \* the Error that reached main().catch: its message, the
                   \* call and the position it was thrown from
  remoteAt         \* per run: remote when the run started

inputs  == <<cfg, fsys>>
locals  == <<token, userInfo, existingNames, missingTaskDefs, created, skipped>>
net     == <<remote, faults, sent, suppressed, inFlight>>
vars    == <<cfg, fsys, run, pc, i, token, userInfo, remote, existingNames,
             missingTaskDefs, created, skipped, faults, sent, suppressed,
             inFlight, verdict, outcome, error, remoteAt>>

PLAN == cfg.plan[run]

\* ------------------------------------------------------------- transport
\* faulty variants of allowInPlan: plan mode lets every request through;
\* plan mode lets GET through only
allowInPlanAny(method, url) == TRUE

allowInPlanGetOnly(method, url) == method = "GET"

\* http(), lines 139-148: what plan mode lets through
allowInPlan(method, url) == method = "GET" \/ (method = "POST" /\ url = "/token")

httpSends(method, url) == ~(PLAN /\ ~allowInPlan(method, url))

\* faulty variant of httpThrows: http() answers whatever the status
httpThrowsNever(status, okStatuses) == FALSE

\* http(), lines 160-175: fetch rejects, or the status is not in okStatuses
httpThrows(status, okStatuses) == status = Throw \/ status \notin okStatuses

resOk(status) == status >= 200 /\ status <= 299

\* faulty variants of exists: nothing is ever found; everything is found;
\* nothing is looked up in plan mode
existsNever(status) == "no"

existsAlways(status) == "yes"

existsPlanMissing(status) ==
  IF PLAN \/ status = Throw THEN "no"
  ELSE IF resOk(status) THEN "yes" ELSE "no"

\* exists(), lines 186-193: "yes" / "no", never an error
exists(status) == IF status = Throw THEN "no"
                  ELSE IF resOk(status) THEN "yes" ELSE "no"

\* faulty variant of existsGetSends: the check is made in plan mode too
existsGetSendsAlways == TRUE

\* existsGet(), line 216: if (PLAN) return false, before any request
existsGetSends == ~PLAN

\* existsGet(), lines 216-220: no request in plan mode, no try/catch
existsGet(status) == IF ~existsGetSends THEN "no"
                     ELSE IF status = Throw THEN "error"
                     ELSE IF resOk(status) THEN "yes" ELSE "no"

\* listHumanTemplates(), lines 195-207: the names listed; fetch is not
\* inside a try, so a rejected fetch is thrown to main()
listHumanTemplatesThrows(status) == status = Throw

listHumanTemplates(status) ==
  IF ~resOk(status) THEN {}
  ELSE {x[2] : x \in {y \in remote : y[1] = "form"}}

\* ---------------------------------------------------------------- server
\* the part of main() a position belongs to
Part(p) ==
  CASE p \in {"auth", "version", "userInfo"} -> "auth"
    [] p \in {"integration", "integrationCreate", "models", "modelCreate"} -> "openai"
    [] p = "tasks" -> "taskdef"
    [] p \in {"forms", "formLoop"} -> "form"
    [] p \in {"prompts", "promptCreate"} -> "prompt"
    [] p \in {"workflows", "workflowLoop", "workflowCreate"} -> "workflow"
    [] OTHER -> "none"

\* calls fail in the part of the script under focus, at most MaxFaults of
\* them in one behaviour
CanFail == faults[1] + faults[2] < MaxFaults /\ Part(pc) = cfg.focus
IsFault(status) == status \in {Throw, 500, 201}

\* answers to GET of one resource: 200 or 404 from a healthy server; a fault
\* is the request failing, or 500 where 200 was due (for a resource that is
\* absent the code treats every status but 2xx alike)
GetStatuses(kind, name) ==
  IF <<kind, name>> \in remote
  THEN {200} \cup (IF CanFail THEN {Throw, 500} ELSE {})
  ELSE {404} \cup (IF CanFail THEN {Throw} ELSE {})

\* answers to a GET that a healthy server answers with 200
PlainStatuses == {200} \cup (IF CanFail THEN {Throw, 500} ELSE {})

\* answers to a creation POST of the resources targets: 200, or 409 when a
\* target exists already; a fault is 500, or the server creating the
\* resources and answering 201, which not every call has in its okStatuses
PostStatuses(targets) ==
  {200} \cup (IF targets \cap remote # {} THEN {409} ELSE {})
        \cup (IF CanFail THEN {500, 201} ELSE {})

\* a request: names are the resources it is about, idx the position of the
\* descriptor in its list (0: none), body the task definitions of a batch,
\* status the answer it got
Req(method, url, kind, names, idx, body) ==
  [m |-> method, url |-> url, kind |-> kind, names |-> names, idx |-> idx,
   body |-> body, status |-> NoCall]

NoReq == Req("", "", "none", {}, 0, << >>)
NoError == [msg |-> "", at |-> NoReq, pc |-> ""]

\* faulty variant of Awaited: main() goes on while a call is outstanding
AwaitedNever == TRUE

\* every call of fetch(), http(), exists(), existsGet() and
\* listHumanTemplates() in main() is awaited: main() is suspended until
\* the answer is there, so it makes a call only when none is outstanding
Awaited == inFlight = << >>

\* fetch() resolves or rejects: the answer to the request in flight
Fetch(req, status) ==
  /\ inFlight # << >>
  /\ Head(inFlight) = req
  /\ inFlight' = Tail(inFlight)
  /\ sent' = [sent EXCEPT ![run] = Append(@, [req EXCEPT !.status = status])]
  /\ faults' = IF IsFault(status) THEN [faults EXCEPT ![run] = @ + 1] ELSE faults
  /\ remote' = IF req.m = "POST" /\ req.url # "/token" /\ resOk(status)
               THEN remote \cup {<<req.kind, n>> : n \in req.names}
               ELSE remote
  /\ UNCHANGED suppressed

\* one call of http(): sent, or swallowed in plan mode
Http(req, status) ==
  IF httpSends(req.m, req.url)
  THEN Fetch(req, status)
  ELSE /\ suppressed' = [suppressed EXCEPT ![run] = Append(@, req)]
       /\ UNCHANGED <<remote, faults, sent, inFlight>>

\* statuses to draw for a call of http()
HttpStatuses(req, statuses) ==
  IF httpSends(req.m, req.url) THEN statuses ELSE {NoCall}

\* http() throws
HttpFails(req, status, okStatuses) ==
  httpSends(req.m, req.url) /\ httpThrows(status, okStatuses)

Goto(p, k) == pc' = p /\ i' = k /\ UNCHANGED <<outcome, error>>

\* faulty variant of PropagateError: the failed step is tried again
RetryStep(msg, req) == UNCHANGED <<pc, i, outcome, error>>

\* a thrown Error reaches main().catch, lines 606-609: exit code 1
PropagateError(msg, req) ==
  /\ pc' = "aborted"
  /\ outcome' = [outcome EXCEPT ![run] = "aborted"]
  /\ error' = [msg |-> msg, at |-> req, pc |-> pc]
  /\ UNCHANGED i

\* faulty variant of ShouldCreate: the answer of the check is ignored
ShouldCreateAlways(ans) == TRUE

\* if (x.exists) { ...; continue } else create: lines 314, 351, 389, 504, 566
ShouldCreate(ans) == ans = "no"

\* faulty variant of IsNameless: a document without a name is processed
IsNamelessNever(name) == FALSE

\* if (!form.name) / if (!wf.name): lines 442, 556
IsNameless(name) == name = NoName

Verdict(kind, idx, name, ans) ==
  verdict' = [verdict EXCEPT ![run] = @ \cup {<<kind, idx, name, ans = "yes">>}]

\* ------------------------------------------------------------------ Init
\* Inputs vary in full, and calls fail, for one part of the script at a time
\* (focus); the other parts take the baseline, so that the initial states
\* are the sum and not the product of the parts' input spaces.
BaseCfg(p, part) ==
  [plan |-> p, focus |-> part, accessToken |-> "tok", keyId |-> FALSE, keySecret |-> FALSE,
   NO_OPENAI |-> FALSE, OPENAI_API_KEY |-> TRUE, models |-> DEFAULT_OPENAI_MODELS]

BaseFs ==
  [formsDir |-> TRUE, forms |-> << "intake_form" >>,
   promptsDir |-> TRUE, promptFiles |-> RangeOf(REQUIRED_PROMPTS),
   workflowsDir |-> TRUE, workflows |-> << "relocation_wf" >>]

\* --plan / --dry-run of each invocation: one invocation, or a re-run
SinglePlans == {[r \in Runs |-> p] : p \in BOOLEAN}
RerunPlans  == {<<TRUE, FALSE>>, <<FALSE, FALSE>>}

InitAuth(Plans) ==
  /\ \E p \in Plans, t \in {"", "tok"}, k \in BOOLEAN, s \in BOOLEAN :
       cfg = [BaseCfg(p, "auth") EXCEPT !.accessToken = t, !.keyId = k, !.keySecret = s]
  /\ fsys = BaseFs
  /\ remote \in {{}, {<<"taskdef", WORKER_TASKS[1]>>}}

InitOpenAi(Plans) ==
  /\ \E p \in Plans, no \in BOOLEAN, key \in BOOLEAN,
        ms \in SeqsUpTo(RangeOf(DEFAULT_OPENAI_MODELS), MaxModels) :
       cfg = [BaseCfg(p, "openai") EXCEPT !.NO_OPENAI = no, !.OPENAI_API_KEY = key,
                                !.models = ms]
  /\ fsys = BaseFs
  /\ remote \in SUBSET ({<<"integration", openaiIntegrationName>>}
                          \cup {<<"model", m>> : m \in RangeOf(DEFAULT_OPENAI_MODELS)})

InitTasks(Plans) ==
  /\ \E p \in Plans : cfg = BaseCfg(p, "taskdef")
  /\ fsys = BaseFs
  /\ remote \in SUBSET {<<"taskdef", t>> : t \in RangeOf(WORKER_TASKS)}

InitForms(Plans) ==
  /\ \E p \in Plans : cfg = BaseCfg(p, "form")
  /\ \E d \in BOOLEAN, fs \in SeqsUpTo(FormNames \cup {NoName}, MaxFiles) :
       fsys = [BaseFs EXCEPT !.formsDir = d, !.forms = IF d THEN fs ELSE << >>]
  /\ remote \in SUBSET {<<"form", f>> : f \in FormNames}

InitPrompts(Plans) ==
  /\ \E p \in Plans : cfg = BaseCfg(p, "prompt")
  /\ \E d \in BOOLEAN, ps \in SUBSET RangeOf(REQUIRED_PROMPTS) :
       fsys = [BaseFs EXCEPT !.promptsDir = d, !.promptFiles = IF d THEN ps ELSE {}]
  /\ remote \in SUBSET {<<"prompt", q>> : q \in RangeOf(REQUIRED_PROMPTS)}

InitWorkflows(Plans) ==
  /\ \E p \in Plans : cfg = BaseCfg(p, "workflow")
  /\ \E d \in BOOLEAN, ws \in SeqsUpTo(WfNames \cup {NoName}, MaxFiles) :
       fsys = [BaseFs EXCEPT !.workflowsDir = d,
                             !.workflows = IF d THEN ws ELSE << >>]
  /\ remote \in SUBSET {<<"workflow", w>> : w \in WfNames}

Zero == [k \in Kinds |-> 0]

InitRun ==
  /\ run = 1
  /\ pc = "auth"
  /\ i = 1
  /\ token = ""
  /\ userInfo = ""
  /\ existingNames = {}
  /\ missingTaskDefs = << >>
  /\ created = Zero
  /\ skipped = Zero
  /\ faults = [r \in Runs |-> 0]
  /\ error = NoError
  /\ sent = [r \in Runs |-> << >>]
  /\ suppressed = [r \in Runs |-> << >>]
  /\ inFlight = << >>
  /\ verdict = [r \in Runs |-> {}]
  /\ outcome = [r \in Runs |-> IF r = 1 THEN "running" ELSE "idle"]
  /\ remoteAt = [r \in Runs |-> remote]

Scenario(Plans) ==
  /\ \/ InitAuth(Plans) \/ InitOpenAi(Plans) \/ InitTasks(Plans)
     \/ InitForms(Plans) \/ InitPrompts(Plans) \/ InitWorkflows(Plans)
  /\ InitRun

Init == Scenario(SinglePlans)

InitRerun == Scenario(RerunPlans)

\* -------------------------------------------------------- authentication
\* main(), lines 244-275
TokenReq == Req("POST", "/token", "none", {}, 0, << >>)

AuthDirect ==
  /\ pc = "auth"
  /\ cfg.accessToken # ""
  /\ token' = cfg.accessToken
  /\ Goto("version", 1)
  /\ UNCHANGED <<inputs, run, userInfo, existingNames, missingTaskDefs, created,
                 skipped, net, verdict, remoteAt>>

AuthNoCredentials ==
  /\ pc = "auth"
  /\ cfg.accessToken = ""
  /\ ~cfg.keyId \/ ~cfg.keySecret
  /\ PropagateError("credentials", NoReq)
  /\ UNCHANGED <<inputs, run, locals, net, verdict, remoteAt>>

\* the exchange: hasToken is whether the response body carries a token
AuthExchange ==
  /\ pc = "auth"
  /\ cfg.accessToken = ""
  /\ cfg.keyId /\ cfg.keySecret
  /\ \E status \in HttpStatuses(TokenReq, PlainStatuses),
        hasToken \in (IF httpSends("POST", "/token") THEN BOOLEAN ELSE {FALSE}) :
       /\ Http(TokenReq, status)
       /\ IF HttpFails(TokenReq, status, {200})
          THEN PropagateError("http", TokenReq) /\ UNCHANGED token
          ELSE /\ token' = IF hasToken THEN "tok" ELSE ""
               /\ IF ~hasToken /\ ~PLAN
                  THEN PropagateError("no token", TokenReq)
                  ELSE Goto("version", 1)
  /\ UNCHANGED <<inputs, run, userInfo, existingNames, missingTaskDefs, created,
                 skipped, verdict, remoteAt>>

\* main(), lines 277-279
VersionReq == Req("GET", "/version", "none", {}, 0, << >>)

CheckConnectivity ==
  /\ pc = "version"
  /\ \E status \in HttpStatuses(VersionReq, PlainStatuses) :
       /\ Http(VersionReq, status)
       /\ IF HttpFails(VersionReq, status, {200})
          THEN PropagateError("http", VersionReq)
          ELSE Goto("userInfo", 1)
  /\ UNCHANGED <<inputs, run, locals, verdict, remoteAt>>

\* main(), lines 281-293: a failure is swallowed
UserInfoReq == Req("GET", "/token/userInfo", "none", {}, 0, << >>)

\* the id field of the answer to the lookup, "" when the body has none
UserIds == IF cfg.focus = "auth" THEN {"", "user-id"} ELSE {"user-id"}

\* faulty variant of GetUserInfo: the lookup is not inside a try
GetUserInfoFatal ==
  /\ pc = "userInfo"
  /\ \E status \in HttpStatuses(UserInfoReq, PlainStatuses), id \in UserIds :
       /\ Http(UserInfoReq, status)
       /\ IF HttpFails(UserInfoReq, status, {200})
          THEN PropagateError("http", UserInfoReq) /\ UNCHANGED userInfo
          ELSE userInfo' = id /\ Goto("integration", 1)
  /\ UNCHANGED <<inputs, run, token, existingNames, missingTaskDefs, created,
                 skipped, verdict, remoteAt>>

GetUserInfo ==
  /\ pc = "userInfo"
  /\ \E status \in HttpStatuses(UserInfoReq, PlainStatuses), id \in UserIds :
       /\ Http(UserInfoReq, status)
       /\ userInfo' = IF HttpFails(UserInfoReq, status, {200}) THEN "" ELSE id
  /\ Goto("integration", 1)
  /\ UNCHANGED <<inputs, run, token, existingNames, missingTaskDefs, created,
                 skipped, verdict, remoteAt>>

\* --------------------------------------------------- OpenAI integration
\* main(), lines 297-338
IntegrationGet ==
  Req("GET", "/integrations/provider", "integration", {openaiIntegrationName}, 1, << >>)
IntegrationPost ==
  Req("POST", "/integrations/provider", "integration", {openaiIntegrationName}, 1, << >>)

\* existsGet(): the request is made in apply mode only
ExistsGetCall(req, status) ==
  IF ~existsGetSends THEN UNCHANGED net ELSE Fetch(req, status)

ExistsGetStatuses(req) ==
  IF ~existsGetSends THEN {NoCall}
  ELSE UNION {GetStatuses(req.kind, n) : n \in req.names}

SkipOpenAi ==
  /\ pc = "integration"
  /\ cfg.NO_OPENAI
  /\ Goto("tasks", 1)
  /\ UNCHANGED <<inputs, run, locals, net, verdict, remoteAt>>

\* mustEnv("OPENAI_API_KEY"), lines 111-117 and 301
MissingOpenAiKey ==
  /\ pc = "integration"
  /\ ~cfg.NO_OPENAI
  /\ ~cfg.OPENAI_API_KEY
  /\ PropagateError("OPENAI_API_KEY", NoReq)
  /\ UNCHANGED <<inputs, run, locals, net, verdict, remoteAt>>

IntegrationCheck ==
  /\ pc = "integration"
  /\ ~cfg.NO_OPENAI
  /\ cfg.OPENAI_API_KEY
  /\ \E status \in ExistsGetStatuses(IntegrationGet) :
       LET integExists == existsGet(status) IN
       /\ ExistsGetCall(IntegrationGet, status)
       /\ IF integExists = "error"
          THEN PropagateError("fetch", IntegrationGet) /\ UNCHANGED verdict
          ELSE /\ Verdict("integration", 1, openaiIntegrationName, integExists)
               /\ IF ShouldCreate(integExists) /\ ~PLAN
                  THEN Goto("integrationCreate", 1)
                  ELSE Goto("models", 1)
  /\ UNCHANGED <<inputs, run, locals, remoteAt>>

IntegrationCreate ==
  /\ pc = "integrationCreate"
  /\ \E status \in HttpStatuses(IntegrationPost, PostStatuses({<<"integration", openaiIntegrationName>>})) :
       /\ Http(IntegrationPost, status)
       /\ IF HttpFails(IntegrationPost, status, {200, 201, 204})
          THEN PropagateError("http", IntegrationPost)
          ELSE Goto("models", 1)
  /\ UNCHANGED <<inputs, run, locals, verdict, remoteAt>>

\* ----------------------------------------------------------------- models
\* main(), lines 341-377
ModelGet(k) ==
  Req("GET", "/integrations/provider/integration", "model", {cfg.models[k]}, k, << >>)
ModelPost(k) ==
  Req("POST", "/integrations/provider/integration", "model", {cfg.models[k]}, k, << >>)

\* faulty variant of Bump: the counter is left as it is
BumpNone(counter, kind) == counter

\* modelsAdded++, formsSkipped++, ...: lines 362, 365, 452, 467, 507, 529,
\* 569, 585
Bump(counter, kind) == [counter EXCEPT ![kind] = @ + 1]

ModelCheck ==
  /\ pc = "models"
  /\ i <= Len(cfg.models)
  /\ \E status \in ExistsGetStatuses(ModelGet(i)) :
       LET modelExists == existsGet(status) IN
       /\ ExistsGetCall(ModelGet(i), status)
       /\ IF modelExists = "error"
          THEN PropagateError("fetch", ModelGet(i)) /\ UNCHANGED <<verdict, skipped>>
          ELSE /\ Verdict("model", i, cfg.models[i], modelExists)
               /\ skipped' = IF ShouldCreate(modelExists) THEN skipped
                             ELSE Bump(skipped, "model")
               /\ IF ShouldCreate(modelExists) /\ ~PLAN
                  THEN Goto("modelCreate", i)
                  ELSE Goto("models", i + 1)
  /\ UNCHANGED <<inputs, run, token, userInfo, existingNames, missingTaskDefs,
                 created, remoteAt>>

ModelCreate ==
  /\ pc = "modelCreate"
  /\ \E status \in HttpStatuses(ModelPost(i), PostStatuses({<<"model", cfg.models[i]>>})) :
       /\ Http(ModelPost(i), status)
       /\ IF HttpFails(ModelPost(i), status, {200, 201, 204})
          THEN PropagateError("http", ModelPost(i)) /\ UNCHANGED created
          ELSE created' = Bump(created, "model") /\ Goto("models", i + 1)
  /\ UNCHANGED <<inputs, run, token, userInfo, existingNames, missingTaskDefs,
                 skipped, verdict, remoteAt>>

ModelsDone ==
  /\ pc = "models"
  /\ i > Len(cfg.models)
  /\ Goto("tasks", 1)
  /\ UNCHANGED <<inputs, run, locals, net, verdict, remoteAt>>

\* ------------------------------------------------------- task definitions
\* main(), lines 383-417
TaskGet(k) ==
  Req("GET", "/metadata/taskdefs", "taskdef", {WORKER_TASKS[k]}, k, << >>)

TaskDef(name) ==
  [name |-> name, retryCount |-> 2, timeoutSeconds |-> 300,
   responseTimeoutSeconds |-> 300,
   ownerEmail |-> IF userInfo # "" THEN userInfo ELSE "unknown"]

TaskCheck ==
  /\ pc = "tasks"
  /\ i <= Len(WORKER_TASKS)
  /\ \E status \in GetStatuses("taskdef", WORKER_TASKS[i]) :
       LET taskExists == exists(status) IN
       /\ Fetch(TaskGet(i), status)
       /\ Verdict("taskdef", i, WORKER_TASKS[i], taskExists)
       /\ missingTaskDefs' = IF ShouldCreate(taskExists)
                             THEN Append(missingTaskDefs, TaskDef(WORKER_TASKS[i]))
                             ELSE missingTaskDefs
  /\ Goto("tasks", i + 1)
  /\ UNCHANGED <<inputs, run, token, userInfo, existingNames, created, skipped,
                 remoteAt>>

\* faulty variant of TaskBatchPost: the batch carries the first missing
\* task definition only
TaskBatchPostFirstOnly ==
  Req("POST", "/metadata/taskdefs", "taskdef",
      {missingTaskDefs[1].name}, 0, SubSeq(missingTaskDefs, 1, 1))

\* lines 407-413: one request whose body is the array missingTaskDefs
TaskBatchPost ==
  Req("POST", "/metadata/taskdefs", "taskdef",
      {missingTaskDefs[k].name : k \in 1..Len(missingTaskDefs)}, 0, missingTaskDefs)

TasksNothingToCreate ==
  /\ pc = "tasks"
  /\ i > Len(WORKER_TASKS)
  /\ Len(missingTaskDefs) = 0
  /\ Goto("forms", 1)
  /\ UNCHANGED <<inputs, run, locals, net, verdict, remoteAt>>

TaskBatchCreate ==
  /\ pc = "tasks"
  /\ i > Len(WORKER_TASKS)
  /\ Len(missingTaskDefs) # 0
  /\ \E status \in HttpStatuses(TaskBatchPost,
                     PostStatuses({<<"taskdef", n>> : n \in TaskBatchPost.names})) :
       /\ Http(TaskBatchPost, status)
       /\ IF HttpFails(TaskBatchPost, status, {200, 204})
          THEN PropagateError("http", TaskBatchPost) /\ UNCHANGED created
          ELSE /\ created' = [created EXCEPT !["taskdef"] = Len(missingTaskDefs)]
               /\ Goto("forms", 1)
  /\ UNCHANGED <<inputs, run, token, userInfo, existingNames, missingTaskDefs,
                 skipped, verdict, remoteAt>>

\* ------------------------------------------------------------------ forms
\* main(), lines 424-476
TemplatesGet == Req("GET", "/human/template", "form", {}, 0, << >>)
FormPost(k) ==
  Req("POST", "/human/template", "form", {fsys.forms[k]}, k, << >>)

\* faulty variant of NoFormsDir: the missing directory is an error
NoFormsDirFatal ==
  /\ pc = "forms"
  /\ ~fsys.formsDir
  /\ PropagateError("forms dir", NoReq)
  /\ UNCHANGED <<inputs, run, locals, net, verdict, remoteAt>>

\* lines 424-425
NoFormsDir ==
  /\ pc = "forms"
  /\ ~fsys.formsDir
  /\ Goto("prompts", 1)
  /\ UNCHANGED <<inputs, run, locals, net, verdict, remoteAt>>

NoFormFiles ==
  /\ pc = "forms"
  /\ fsys.formsDir
  /\ Len(fsys.forms) = 0
  /\ Goto("prompts", 1)
  /\ UNCHANGED <<inputs, run, locals, net, verdict, remoteAt>>

\* lines 431-433: the one listing of the pass
ListTemplates ==
  /\ pc = "forms"
  /\ fsys.formsDir
  /\ Len(fsys.forms) > 0
  /\ \E status \in PlainStatuses :
       /\ Fetch(TemplatesGet, status)
       /\ IF listHumanTemplatesThrows(status)
          THEN PropagateError("fetch", TemplatesGet) /\ UNCHANGED existingNames
          ELSE /\ existingNames' = listHumanTemplates(status)
               /\ Goto("formLoop", 1)
  /\ UNCHANGED <<inputs, run, token, userInfo, missingTaskDefs, created, skipped,
                 verdict, remoteAt>>

\* lines 442-445
FormNameless ==
  /\ pc = "formLoop"
  /\ i <= Len(fsys.forms)
  /\ IsNameless(fsys.forms[i])
  /\ Goto("formLoop", i + 1)
  /\ UNCHANGED <<inputs, run, locals, net, verdict, remoteAt>>

\* lines 449-453
FormExists ==
  /\ pc = "formLoop"
  /\ i <= Len(fsys.forms)
  /\ ~IsNameless(fsys.forms[i])
  /\ fsys.forms[i] \in existingNames
  /\ Verdict("form", i, fsys.forms[i], "yes")
  /\ skipped' = Bump(skipped, "form")
  /\ Goto("formLoop", i + 1)
  /\ UNCHANGED <<inputs, run, token, userInfo, existingNames, missingTaskDefs,
                 created, net, remoteAt>>

\* faulty variant of FormCreate: the templates are listed again once a form
\* has been created
FormCreateRelist ==
  /\ pc = "formLoop"
  /\ i <= Len(fsys.forms)
  /\ ~IsNameless(fsys.forms[i])
  /\ fsys.forms[i] \notin existingNames
  /\ Verdict("form", i, fsys.forms[i], "no")
  /\ \E status \in HttpStatuses(FormPost(i), PostStatuses({<<"form", fsys.forms[i]>>})) :
       /\ Http(FormPost(i), status)
       /\ IF HttpFails(FormPost(i), status, {200, 204})
          THEN PropagateError("http", FormPost(i)) /\ UNCHANGED created
          ELSE /\ created' = Bump(created, "form")
               /\ IF PLAN THEN Goto("formLoop", i + 1) ELSE Goto("forms", 1)
  /\ UNCHANGED <<inputs, run, token, userInfo, existingNames, missingTaskDefs,
                 skipped, remoteAt>>

\* lines 455-466
FormCreate ==
  /\ pc = "formLoop"
  /\ i <= Len(fsys.forms)
  /\ ~IsNameless(fsys.forms[i])
  /\ fsys.forms[i] \notin existingNames
  /\ Verdict("form", i, fsys.forms[i], "no")
  /\ \E status \in HttpStatuses(FormPost(i), PostStatuses({<<"form", fsys.forms[i]>>})) :
       /\ Http(FormPost(i), status)
       /\ IF HttpFails(FormPost(i), status, {200, 204})
          THEN PropagateError("http", FormPost(i)) /\ UNCHANGED created
          ELSE created' = Bump(created, "form") /\ Goto("formLoop", i + 1)
  /\ UNCHANGED <<inputs, run, token, userInfo, existingNames, missingTaskDefs,
                 skipped, remoteAt>>

FormsDone ==
  /\ pc = "formLoop"
  /\ i > Len(fsys.forms)
  /\ Goto("prompts", 1)
  /\ UNCHANGED <<inputs, run, locals, net, verdict, remoteAt>>

\* ---------------------------------------------------------------- prompts
\* main(), lines 489-537
PromptGet(k) == Req("GET", "/prompts", "prompt", {REQUIRED_PROMPTS[k]}, k, << >>)
PromptPost(k) == Req("POST", "/prompts", "prompt", {REQUIRED_PROMPTS[k]}, k, << >>)

\* fs.existsSync(path.join(PROMPTS_DIR, p.file)), line 494
PromptFileExists(k) == fsys.promptsDir /\ REQUIRED_PROMPTS[k] \in fsys.promptFiles

PromptFileMissing ==
  /\ pc = "prompts"
  /\ i <= Len(REQUIRED_PROMPTS)
  /\ ~PromptFileExists(i)
  /\ Goto("prompts", i + 1)
  /\ UNCHANGED <<inputs, run, locals, net, verdict, remoteAt>>

PromptCheck ==
  /\ pc = "prompts"
  /\ i <= Len(REQUIRED_PROMPTS)
  /\ PromptFileExists(i)
  /\ \E status \in GetStatuses("prompt", REQUIRED_PROMPTS[i]) :
       LET promptExists == exists(status) IN
       /\ Fetch(PromptGet(i), status)
       /\ Verdict("prompt", i, REQUIRED_PROMPTS[i], promptExists)
       /\ skipped' = IF ShouldCreate(promptExists) THEN skipped
                     ELSE Bump(skipped, "prompt")
       /\ IF ShouldCreate(promptExists)
          THEN Goto("promptCreate", i)
          ELSE Goto("prompts", i + 1)
  /\ UNCHANGED <<inputs, run, token, userInfo, existingNames, missingTaskDefs,
                 created, remoteAt>>

\* faulty variant of PromptCreate: the prompt is checked again once it has
\* been created
PromptCreateRecheck ==
  /\ pc = "promptCreate"
  /\ \E status \in HttpStatuses(PromptPost(i), PostStatuses({<<"prompt", REQUIRED_PROMPTS[i]>>})) :
       /\ Http(PromptPost(i), status)
       /\ IF HttpFails(PromptPost(i), status, {200, 204})
          THEN PropagateError("http", PromptPost(i)) /\ UNCHANGED created
          ELSE created' = Bump(created, "prompt") /\ Goto("prompts", IF PLAN THEN i + 1 ELSE i)
  /\ UNCHANGED <<inputs, run, token, userInfo, existingNames, missingTaskDefs,
                 skipped, verdict, remoteAt>>

\* lines 510-530
PromptCreate ==
  /\ pc = "promptCreate"
  /\ \E status \in HttpStatuses(PromptPost(i), PostStatuses({<<"prompt", REQUIRED_PROMPTS[i]>>})) :
       /\ Http(PromptPost(i), status)
       /\ IF HttpFails(PromptPost(i), status, {200, 204})
          THEN PropagateError("http", PromptPost(i)) /\ UNCHANGED created
          ELSE created' = Bump(created, "prompt") /\ Goto("prompts", i + 1)
  /\ UNCHANGED <<inputs, run, token, userInfo, existingNames, missingTaskDefs,
                 skipped, verdict, remoteAt>>

PromptsDone ==
  /\ pc = "prompts"
  /\ i > Len(REQUIRED_PROMPTS)
  /\ Goto("workflows", 1)
  /\ UNCHANGED <<inputs, run, locals, net, verdict, remoteAt>>

\* -------------------------------------------------------------- workflows
\* main(), lines 542-593
WorkflowGet(k) ==
  Req("GET", "/metadata/workflow", "workflow", {fsys.workflows[k]}, k, << >>)
WorkflowPost(k) ==
  Req("POST", "/metadata/workflow", "workflow", {fsys.workflows[k]}, k, << >>)

\* line 542: the directory is required
NoWorkflowsDir ==
  /\ pc = "workflows"
  /\ ~fsys.workflowsDir
  /\ PropagateError("workflows dir", NoReq)
  /\ UNCHANGED <<inputs, run, locals, net, verdict, remoteAt>>

WorkflowsStart ==
  /\ pc = "workflows"
  /\ fsys.workflowsDir
  /\ Goto("workflowLoop", 1)
  /\ UNCHANGED <<inputs, run, locals, net, verdict, remoteAt>>

\* lines 556-559
WorkflowNameless ==
  /\ pc = "workflowLoop"
  /\ i <= Len(fsys.workflows)
  /\ IsNameless(fsys.workflows[i])
  /\ Goto("workflowLoop", i + 1)
  /\ UNCHANGED <<inputs, run, locals, net, verdict, remoteAt>>

WorkflowCheck ==
  /\ pc = "workflowLoop"
  /\ i <= Len(fsys.workflows)
  /\ ~IsNameless(fsys.workflows[i])
  /\ \E status \in GetStatuses("workflow", fsys.workflows[i]) :
       LET wfExists == exists(status) IN
       /\ Fetch(WorkflowGet(i), status)
       /\ Verdict("workflow", i, fsys.workflows[i], wfExists)
       /\ skipped' = IF ShouldCreate(wfExists) THEN skipped
                     ELSE Bump(skipped, "workflow")
       /\ IF ShouldCreate(wfExists)
          THEN Goto("workflowCreate", i)
          ELSE Goto("workflowLoop", i + 1)
  /\ UNCHANGED <<inputs, run, token, userInfo, existingNames, missingTaskDefs,
                 created, remoteAt>>

WorkflowCreate ==
  /\ pc = "workflowCreate"
  /\ \E status \in HttpStatuses(WorkflowPost(i), PostStatuses({<<"workflow", fsys.workflows[i]>>})) :
       /\ Http(WorkflowPost(i), status)
       /\ IF HttpFails(WorkflowPost(i), status, {200, 204})
          THEN PropagateError("http", WorkflowPost(i)) /\ UNCHANGED created
          ELSE created' = Bump(created, "workflow") /\ Goto("workflowLoop", i + 1)
  /\ UNCHANGED <<inputs, run, token, userInfo, existingNames, missingTaskDefs,
                 skipped, verdict, remoteAt>>

\* lines 588-604: main() returns
SetupComplete ==
  /\ pc = "workflowLoop"
  /\ i > Len(fsys.workflows)
  /\ pc' = "done"
  /\ outcome' = [outcome EXCEPT ![run] = "done"]
  /\ UNCHANGED <<inputs, run, i, locals, net, verdict, error, remoteAt>>

\* ------------------------------------------------------------- the calls
\* the request main() makes next where it stands, NoReq when the next
\* statement is not a call (existsGet() makes none in plan mode)
Due ==
  CASE pc = "auth" /\ cfg.accessToken = "" /\ cfg.keyId /\ cfg.keySecret -> TokenReq
    [] pc = "version" -> VersionReq
    [] pc = "userInfo" -> UserInfoReq
    [] pc = "integration" /\ ~cfg.NO_OPENAI /\ cfg.OPENAI_API_KEY /\ existsGetSends
         -> IntegrationGet
    [] pc = "integrationCreate" -> IntegrationPost
    [] pc = "models" /\ i <= Len(cfg.models) /\ existsGetSends -> ModelGet(i)
    [] pc = "modelCreate" -> ModelPost(i)
    [] pc = "tasks" /\ i <= Len(WORKER_TASKS) -> TaskGet(i)
    [] pc = "tasks" /\ i > Len(WORKER_TASKS) /\ Len(missingTaskDefs) # 0
         -> TaskBatchPost
    [] pc = "forms" /\ fsys.formsDir /\ Len(fsys.forms) > 0 -> TemplatesGet
    [] /\ pc = "formLoop" /\ i <= Len(fsys.forms)
       /\ ~IsNameless(fsys.forms[i]) /\ fsys.forms[i] \notin existingNames
         -> FormPost(i)
    [] pc = "prompts" /\ i <= Len(REQUIRED_PROMPTS) /\ PromptFileExists(i)
         -> PromptGet(i)
    [] pc = "promptCreate" -> PromptPost(i)
    [] /\ pc = "workflowLoop" /\ i <= Len(fsys.workflows)
       /\ ~IsNameless(fsys.workflows[i])
         -> WorkflowGet(i)
    [] pc = "workflowCreate" -> WorkflowPost(i)
    [] OTHER -> NoReq

\* fetch() is called: the request leaves (http() swallows it in plan mode
\* unless allowInPlan)
Issue ==
  /\ Awaited
  /\ Due # NoReq
  /\ httpSends(Due.m, Due.url)
  /\ inFlight' = Append(inFlight, Due)
  /\ UNCHANGED <<inputs, run, pc, i, locals, remote, faults, sent, suppressed,
                 verdict, outcome, error, remoteAt>>

\* ---------------------------------------------------------------- re-run
\* the script is started again, against the server as the first run left it
Rerun ==
  /\ run = 1
  /\ pc \in {"done", "aborted"}
  /\ run' = 2
  /\ pc' = "auth"
  /\ i' = 1
  /\ token' = ""
  /\ userInfo' = ""
  /\ existingNames' = {}
  /\ missingTaskDefs' = << >>
  /\ created' = Zero
  /\ skipped' = Zero
  /\ outcome' = [outcome EXCEPT ![2] = "running"]
  /\ error' = NoError
  /\ remoteAt' = [remoteAt EXCEPT ![2] = remote]
  /\ UNCHANGED <<inputs, net, verdict>>

Authentication == AuthDirect \/ AuthNoCredentials \/ AuthExchange
OpenAiPass == SkipOpenAi \/ MissingOpenAiKey \/ IntegrationCheck \/ IntegrationCreate
ModelsPass == ModelCheck \/ ModelCreate \/ ModelsDone
TaskDefsPass == TaskCheck \/ TasksNothingToCreate \/ TaskBatchCreate
FormsPass == NoFormsDir \/ NoFormFiles \/ ListTemplates \/ FormNameless
               \/ FormExists \/ FormCreate \/ FormsDone
PromptsPass == PromptFileMissing \/ PromptCheck \/ PromptCreate \/ PromptsDone
WorkflowsPass == NoWorkflowsDir \/ WorkflowsStart \/ WorkflowNameless
                   \/ WorkflowCheck \/ WorkflowCreate \/ SetupComplete

Next == Issue \/ Authentication \/ CheckConnectivity \/ GetUserInfo \/ OpenAiPass
          \/ ModelsPass \/ TaskDefsPass \/ FormsPass \/ PromptsPass
          \/ WorkflowsPass

NextRerun == Next \/ Rerun

\* one invocation of the script
Spec == Init /\ [][Next]_vars

\* an invocation followed by a second one over the same local sources
SpecRerun == InitRerun /\ [][NextRerun]_vars

\* one invocation in which every call is answered and main() keeps running
\* until it returns or throws
SpecFair == Spec /\ WF_vars(Next)

\* ================================================================ claims
\* requests of run r, by position in sent[r]
IsCreation(q) == q.m = "POST" /\ q.url # "/token"
IsCheck(q) == q.m = "GET" /\ q.kind \in Kinds
CreationsIn(r) == {k \in 1..Len(sent[r]) : IsCreation(sent[r][k])}
CreationsOf(r, kind, idx) ==
  {k \in CreationsIn(r) : sent[r][k].kind = kind /\ sent[r][k].idx = idx}
\* every call of the current run, made or swallowed
Calls == RangeOf(sent[run]) \cup RangeOf(suppressed[run])
MissingOf(r, kind) == {v \in verdict[r] : v[1] = kind /\ ~v[4]}
Named(list) == {k \in 1..Len(list) : list[k] # NoName}
DistinctNames(list) ==
  \A a, b \in Named(list) : a # b => list[a] # list[b]

\* C1: in plan mode every request sent is a GET or the POST to /token, and
\* the remote resources are those the run started with
C1_PlanSendsNoMutation ==
  PLAN =>
    /\ \A k \in 1..Len(sent[run]) :
         \/ sent[run][k].m = "GET"
         \/ sent[run][k].m = "POST" /\ sent[run][k].url = "/token"
    /\ remote = remoteAt[run]

C1_Witness ==
  /\ PLAN
  /\ pc = "done"
  /\ Len(suppressed[run]) >= 4
  /\ Len(sent[run]) >= 4

\* C2: after an apply run that completed, a second apply run over the same
\* sources whose existence checks are all answered by the server as it is
\* sends no creation and counts none
C2_SecondApplyCreatesNothing ==
  (run = 2 /\ ~cfg.plan[1] /\ ~cfg.plan[2] /\ outcome[1] = "done" /\ faults[2] = 0)
    => /\ CreationsIn(2) = {}
       /\ suppressed[2] = << >>
       /\ created = Zero

C2_Witness ==
  /\ run = 2
  /\ pc = "done"
  /\ ~cfg.plan[1] /\ ~cfg.plan[2]
  /\ outcome[1] = "done"
  /\ faults[2] = 0
  /\ Cardinality(CreationsIn(1)) >= 4
  /\ skipped["prompt"] = Len(REQUIRED_PROMPTS)

\* a plan run and then an apply run whose checks are all answered from one
\* fixed set of existing names: no call fails and no workflow name occurs
\* twice (an apply run would see the second as created by the first)
FixedOracle ==
  /\ cfg.plan = <<TRUE, FALSE>>
  /\ faults[1] = 0 /\ faults[2] = 0
  /\ DistinctNames(fsys.workflows)

ParityOn(kinds) ==
  \A v \in verdict[1], w \in verdict[2] :
    (v[1] \in kinds /\ v[1] = w[1] /\ v[2] = w[2]) => v[4] = w[4]

\* C3 as stated: plan and apply classify every descriptor of every kind alike
C3_ParityEveryKind == FixedOracle => ParityOn(Kinds)

\* C3 amended: plan and apply classify every task definition, form, prompt
\* and workflow alike; the integration and the models are always missing
\* in plan mode
C3_ParityCheckedKinds ==
  FixedOracle =>
    /\ ParityOn({"taskdef", "form", "prompt", "workflow"})
    /\ \A v \in verdict[1] : v[1] \in {"integration", "model"} => ~v[4]

C3_Witness ==
  /\ FixedOracle
  /\ run = 2
  /\ pc = "done"
  /\ outcome[1] = "done"
  /\ \E v \in verdict[2] : v[1] = "prompt" /\ v[4]
  /\ \E v \in verdict[2] : v[1] = "prompt" /\ ~v[4]
  /\ \E v \in verdict[1] : v[1] = "prompt" /\ v[4]

\* no two creation requests of run r are about the same resource
OneCreationPerName(r) ==
  \A a, b \in CreationsIn(r) :
    a # b => ~(/\ sent[r][a].kind = sent[r][b].kind
               /\ sent[r][a].names \cap sent[r][b].names # {})

\* C4 as stated: whatever the desired lists, a resource is created at most
\* once in a run
C4_NeverCreatedTwice == OneCreationPerName(run)

\* C4 amended: when the names within each kind's list are distinct, at most
\* one creation request is sent for each (kind, name)
C4_NeverCreatedTwiceDistinct ==
  (/\ DistinctNames(fsys.forms)
   /\ DistinctNames(fsys.workflows)
   /\ DistinctNames(cfg.models))
    => OneCreationPerName(run)

C4_Witness ==
  /\ ~PLAN
  /\ pc = "done"
  /\ Len(fsys.forms) = 2
  /\ DistinctNames(fsys.forms)
  /\ Cardinality(CreationsOf(run, "form", 1)) = 1
  /\ Cardinality(CreationsOf(run, "form", 2)) = 1
  /\ Cardinality(CreationsIn(run)) >= 6

\* C5: every creation call follows a check of the same descriptor that
\* answered "missing"; a descriptor whose check answered "exists" gets no
\* call but that check; no request is anything but a GET or a POST
C5_CreateOnlyIfAbsent ==
  /\ \A q \in Calls : q.m \in {"GET", "POST"}
  /\ \A q \in Calls :
       IsCreation(q) =>
         \A n \in q.names :
           \E v \in verdict[run] :
             /\ v[1] = q.kind /\ v[3] = n /\ ~v[4]
             /\ q.idx # 0 => v[2] = q.idx
  /\ \A v \in verdict[run] :
       v[4] => \A q \in Calls :
                 IsCreation(q) /\ q.kind = v[1] =>
                   IF q.idx # 0 THEN q.idx # v[2] ELSE v[3] \notin q.names

C5_Witness ==
  /\ ~PLAN
  /\ pc = "done"
  /\ \E v \in verdict[run] : v[1] = "taskdef" /\ v[4]
  /\ \E k \in CreationsIn(run) : sent[run][k].kind = "taskdef"
  /\ \E v \in verdict[run] : v[1] = "workflow" /\ ~v[4]

\* positions after the task definitions pass, and after the forms pass
PastTasks == {"forms", "formLoop", "prompts", "promptCreate", "workflows",
              "workflowLoop", "workflowCreate", "done"}
PastForms == PastTasks \ {"forms", "formLoop"}

\* the creation call of descriptor idx of kind is the step about to be taken
Pending(kind, idx) ==
  /\ i = idx
  /\ \/ kind = "model" /\ pc = "modelCreate"
     \/ kind = "prompt" /\ pc = "promptCreate"
     \/ kind = "workflow" /\ pc = "workflowCreate"

\* C6: in apply mode the task definitions pass sends one creation request
\* carrying exactly the missing task definitions, none when nothing is
\* missing; every missing model, form, prompt and workflow gets one
\* creation request of its own, carrying that one descriptor
C6_BatchVsPerItem ==
  ~PLAN =>
    /\ LET batches == {k \in CreationsIn(run) : sent[run][k].kind = "taskdef"}
           missing == {v[3] : v \in MissingOf(run, "taskdef")}
       IN /\ Cardinality(batches) <= 1
          /\ \A k \in batches :
               /\ sent[run][k].names = missing
               /\ {sent[run][k].body[n].name : n \in 1..Len(sent[run][k].body)} = missing
               /\ Len(sent[run][k].body) = Cardinality(missing)
               /\ Cardinality({v \in verdict[run] : v[1] = "taskdef"}) = Len(WORKER_TASKS)
          /\ pc \in PastTasks => (Cardinality(batches) = 1 <=> missing # {})
    /\ \A kind \in {"model", "form", "prompt", "workflow"} :
         /\ \A v \in MissingOf(run, kind) :
              Cardinality(CreationsOf(run, kind, v[2])) =
                IF Pending(kind, v[2]) THEN 0 ELSE 1
         /\ \A k \in CreationsIn(run) :
              sent[run][k].kind = kind =>
                \E v \in MissingOf(run, kind) :
                  v[2] = sent[run][k].idx /\ sent[run][k].names = {v[3]}

C6_Witness ==
  /\ ~PLAN
  /\ pc = "done"
  /\ \E k \in CreationsIn(run) :
       sent[run][k].kind = "taskdef" /\ Cardinality(sent[run][k].names) = 2
  /\ Cardinality(MissingOf(run, "prompt")) = 2
  /\ Cardinality({k \in CreationsIn(run) : sent[run][k].kind = "prompt"}) = 2

\* C7 as stated: for every kind, an existence check that fails (the request
\* fails, or the status is not 2xx) answers "missing" and never ends the run
C7_FailOpenEveryKind ==
  \A k \in 1..Len(sent[run]) :
    LET q == sent[run][k] IN
    (IsCheck(q) /\ ~resOk(q.status)) =>
      /\ ~(pc = "aborted" /\ error.at = [q EXCEPT !.status = NoCall])
      /\ q.idx # 0 => \E v \in verdict[run] : v[1] = q.kind /\ v[2] = q.idx /\ ~v[4]

\* C8: a form or workflow document without a name gets no verdict and no
\* request, and counts nowhere; when the pass is over every named document
\* has exactly one verdict, the one its check gave, and a creation call
\* exactly when that verdict is "missing"
NamelessUntouched(kind, list) ==
  \A idx \in 1..Len(list) :
    list[idx] = NoName =>
      /\ \A v \in verdict[run] : ~(v[1] = kind /\ v[2] = idx)
      /\ \A q \in Calls : ~(q.kind = kind /\ q.idx = idx)

NamedProcessed(kind, list) ==
  /\ {v[2] : v \in {w \in verdict[run] : w[1] = kind}} = Named(list)
  /\ \A v, w \in verdict[run] : (v[1] = kind /\ w[1] = kind /\ v[2] = w[2]) => v = w
  /\ \A v \in verdict[run] : v[1] = kind => v[3] = list[v[2]]
  /\ created[kind] + skipped[kind] = Cardinality(Named(list))
  /\ skipped[kind] = Cardinality({v \in verdict[run] : v[1] = kind /\ v[4]})
  /\ \A idx \in Named(list) :
       Cardinality({q \in Calls : IsCreation(q) /\ q.kind = kind /\ q.idx = idx})
         = IF \E v \in MissingOf(run, kind) : v[2] = idx THEN 1 ELSE 0

NoCallsOf(kind) == \A q \in Calls : q.kind # kind

\* C9 as stated: a missing forms, prompts or workflows directory means no
\* request for that kind and never ends the run
C9_MissingDirNeverFatal ==
  /\ ~fsys.formsDir => NoCallsOf("form") /\ ~(pc = "aborted" /\ Part(error.pc) = "form")
  /\ ~fsys.promptsDir => NoCallsOf("prompt") /\ ~(pc = "aborted" /\ Part(error.pc) = "prompt")
  /\ ~fsys.workflowsDir => NoCallsOf("workflow") /\ ~(pc = "aborted" /\ Part(error.pc) = "workflow")

\* C9 amended: a missing forms or prompts directory means no request for
\* that kind and never ends the run; a missing workflows directory means no
\* request for workflows and ends the run with an error once the prompts
\* pass is over
C9_MissingDirForFormsAndPrompts ==
  /\ ~fsys.formsDir => NoCallsOf("form") /\ ~(pc = "aborted" /\ Part(error.pc) = "form")
  /\ ~fsys.promptsDir => NoCallsOf("prompt") /\ ~(pc = "aborted" /\ Part(error.pc) = "prompt")
  /\ ~fsys.workflowsDir =>
       /\ NoCallsOf("workflow")
       /\ pc \notin {"workflowLoop", "workflowCreate", "done"}
       /\ (pc = "aborted" /\ Part(error.pc) = "workflow") =>
            error.msg = "workflows dir" /\ error.at = NoReq

C9_Witness ==
  /\ pc = "aborted"
  /\ ~fsys.workflowsDir
  /\ error.msg = "workflows dir"
  /\ created["prompt"] = Len(REQUIRED_PROMPTS)

\* C10: a direct access token is the credential and no exchange is made;
\* without one, a key and secret are exchanged in exactly one call, in plan
\* mode too; with neither no request is ever sent; in apply mode a run that
\* holds no token has sent nothing but the exchange
TokenCalls == {k \in 1..Len(sent[run]) : sent[run][k].url = "/token"}

C10_CredentialAcquisition ==
  /\ cfg.accessToken # "" =>
       /\ TokenCalls = {}
       /\ pc # "auth" => token = cfg.accessToken
  /\ (cfg.accessToken = "" /\ cfg.keyId /\ cfg.keySecret) =>
       /\ Cardinality(TokenCalls) = IF pc = "auth" THEN 0 ELSE 1
       /\ \A q \in RangeOf(suppressed[run]) : q.url # "/token"
  /\ (cfg.accessToken = "" /\ ~(cfg.keyId /\ cfg.keySecret)) =>
       /\ sent[run] = << >>
       /\ pc \in {"auth", "aborted"}
  /\ (~PLAN /\ token = "") =>
       /\ \A k \in 1..Len(sent[run]) : sent[run][k].url = "/token"
       /\ verdict[run] = {}
  /\ error.msg = "no token" => (~PLAN /\ pc = "aborted" /\ Len(sent[run]) = 1)

C10_Witness ==
  /\ PLAN
  /\ cfg.accessToken = ""
  /\ pc = "done"
  /\ token = "tok"
  /\ Cardinality(TokenCalls) = 1
  /\ sent[run][1].url = "/token"

\* the resources the run is to provide: every descriptor that has a name
\* and, for a prompt, a file
Desired ==
  (IF cfg.NO_OPENAI THEN {}
   ELSE {<<"integration", openaiIntegrationName>>}
          \cup {<<"model", m>> : m \in RangeOf(cfg.models)})
  \cup {<<"taskdef", t>> : t \in RangeOf(WORKER_TASKS)}
  \cup {<<"form", f>> : f \in RangeOf(fsys.forms) \ {NoName}}
  \cup {<<"prompt", q>> : q \in RangeOf(REQUIRED_PROMPTS) \cap fsys.promptFiles}
  \cup {<<"workflow", w>> : w \in RangeOf(fsys.workflows) \ {NoName}}

\* the resources the creation requests of run r are about
CreatedNames(r) ==
  UNION {{<<sent[r][k].kind, n>> : n \in sent[r][k].names} : k \in CreationsIn(r)}

\* the okStatuses of the creation call of a kind: lines 321, 358, 411, 459,
\* 520, 577
OkStatusesOf(kind) ==
  IF kind \in {"integration", "model"} THEN {200, 201, 204} ELSE {200, 204}

\* q is a creation request whose answer made http() throw
FailedCreation(q) == IsCreation(q) /\ httpThrows(q.status, OkStatusesOf(q.kind))

\* run 1 was an apply run that a failed creation call ended
AbortedByCreation ==
  /\ ~cfg.plan[1]
  /\ outcome[1] = "aborted"
  /\ Len(sent[1]) > 0
  /\ FailedCreation(sent[1][Len(sent[1])])

\* C11: after an apply run that a failed creation call ended, an apply run
\* in which no call fails and that completes has sent creation requests for
\* exactly the desired resources that were missing when it started, none
\* for a resource that was there, and leaves every desired resource, and
\* every resource that was there, on the server
C11_RecoveryByRerun ==
  (run = 2 /\ pc = "done" /\ ~cfg.plan[2] /\ faults[2] = 0 /\ AbortedByCreation)
    => /\ CreatedNames(2) = Desired \ remoteAt[2]
       /\ CreatedNames(2) \cap remoteAt[2] = {}
       /\ Desired \subseteq remote
       /\ remoteAt[2] \subseteq remote

C11_Witness ==
  /\ run = 2
  /\ pc = "done"
  /\ ~cfg.plan[2]
  /\ faults[2] = 0
  /\ AbortedByCreation
  /\ sent[1][Len(sent[1])].kind = "prompt"
  /\ remoteAt[2] # remoteAt[1]
  /\ <<"prompt", REQUIRED_PROMPTS[1]>> \in remoteAt[2] \ remoteAt[1]
  /\ CreatedNames(2) # {}

\* positions in sent[r] of the existence checks and creations of a kind
ChecksOf(r, kind) ==
  {k \in 1..Len(sent[r]) : IsCheck(sent[r][k]) /\ sent[r][k].kind = kind}
CreationsOfKind(r, kind) == {k \in CreationsIn(r) : sent[r][k].kind = kind}

\* every existence check of the kind is sent before every creation of it
ChecksThenCreations(r, kind) ==
  \A a \in CreationsOfKind(r, kind), b \in ChecksOf(r, kind) : b < a

\* item by item: a creation comes right after the check of its descriptor,
\* and every later check of the kind is about a later descriptor
CheckThenCreateEach(r, kind) ==
  \A a \in CreationsOfKind(r, kind) :
    /\ a - 1 \in ChecksOf(r, kind)
    /\ sent[r][a - 1].idx = sent[r][a].idx
    /\ \A b \in ChecksOf(r, kind) : b > a => sent[r][b].idx > sent[r][a].idx

KindRank(kind) ==
  CASE kind = "none" -> 0
    [] kind = "integration" -> 1
    [] kind = "model" -> 2
    [] kind = "taskdef" -> 3
    [] kind = "form" -> 4
    [] kind = "prompt" -> 5
    [] kind = "workflow" -> 6

\* C13: at most one request is in flight; the requests of a run are made
\* in the order integration, models, task definitions, forms, prompts,
\* workflows; a request is made only when every request before it has been
\* answered, and it belongs to no earlier kind than any of those
C13_SequentialFixedOrder ==
  /\ Len(inFlight) <= 1
  /\ \A a, b \in 1..Len(sent[run]) :
       a < b => KindRank(sent[run][a].kind) <= KindRank(sent[run][b].kind)
  /\ \A k \in 1..Len(inFlight), a \in 1..Len(sent[run]) :
       KindRank(sent[run][a].kind) <= KindRank(inFlight[k].kind)
  /\ \A k \in 1..Len(inFlight) : inFlight[k] = Due
  /\ \A a \in 1..Len(suppressed[run]), b \in 1..Len(suppressed[run]) :
       a < b => KindRank(suppressed[run][a].kind) <= KindRank(suppressed[run][b].kind)

C13_Witness ==
  /\ ~PLAN
  /\ pc = "workflowCreate"
  /\ inFlight = << WorkflowPost(i) >>
  /\ \A kind \in Kinds : \E k \in 1..Len(sent[run]) : sent[run][k].kind = kind
  /\ \A kind \in Kinds \ {"workflow"} : CreationsOfKind(run, kind) # {}

\* C14: a creation request whose answer makes http() throw is the last
\* request of the run: it is made once, the run is over with exit code 1,
\* nothing is in flight; and whatever was on the server before, or was
\* created by an earlier request of the run, is still there
C14_FailedCreationAborts ==
  /\ \A k \in 1..Len(sent[run]) :
       FailedCreation(sent[run][k]) =>
         /\ k = Len(sent[run])
         /\ pc = "aborted"
         /\ outcome[run] = "aborted"
         /\ inFlight = << >>
         /\ error.msg = "http"
         /\ [error.at EXCEPT !.status = sent[run][k].status] = sent[run][k]
  /\ remoteAt[run] \subseteq remote
  /\ \A k \in CreationsIn(run) :
       resOk(sent[run][k].status) =>
         \A n \in sent[run][k].names : <<sent[run][k].kind, n>> \in remote

C14_Witness ==
  /\ ~PLAN
  /\ pc = "aborted"
  /\ Len(sent[run]) > 0
  /\ FailedCreation(sent[run][Len(sent[run])])
  /\ sent[run][Len(sent[run])].kind = "prompt"
  /\ sent[run][Len(sent[run])].status = 500
  /\ <<"prompt", REQUIRED_PROMPTS[1]>> \in remote \ remoteAt[run]
  /\ <<"prompt", REQUIRED_PROMPTS[2]>> \notin remote

\* how many descriptors of a kind a complete run processes: those with a
\* name and, for a prompt, a file
Processed(kind) ==
  CASE kind = "integration" -> IF cfg.NO_OPENAI THEN 0 ELSE 1
    [] kind = "model" -> IF cfg.NO_OPENAI THEN 0 ELSE Len(cfg.models)
    [] kind = "taskdef" -> Len(WORKER_TASKS)
    [] kind = "form" -> Cardinality(Named(fsys.forms))
    [] kind = "prompt" -> Cardinality(RangeOf(REQUIRED_PROMPTS) \cap fsys.promptFiles)
    [] kind = "workflow" -> Cardinality(Named(fsys.workflows))

ExistingOf(r, kind) == {v \in verdict[r] : v[1] = kind /\ v[4]}

\* every processed descriptor of the kind has one verdict, existing or
\* missing
CountedOnce(kind) ==
  /\ Cardinality({v \in verdict[run] : v[1] = kind}) = Processed(kind)
  /\ \A v, w \in verdict[run] : (v[1] = kind /\ w[1] = kind /\ v[2] = w[2]) => v = w
  /\ Cardinality(ExistingOf(run, kind)) + Cardinality(MissingOf(run, kind))
       = Processed(kind)

Counted == {"model", "form", "prompt", "workflow"}

\* C15 as stated: when the run is complete, for every kind that is counted
\* the existing and the missing add up to the descriptors processed, and
\* the counter of creations is the number of missing ones in apply mode and
\* 0 in plan mode
C15_CountsAsStated ==
  pc = "done" =>
    \A kind \in Counted :
      /\ CountedOnce(kind)
      /\ skipped[kind] = Cardinality(ExistingOf(run, kind))
      /\ created[kind] = IF PLAN THEN 0 ELSE Cardinality(MissingOf(run, kind))

\* C15 amended: when the run is complete, every processed descriptor of
\* every kind has one verdict; the counter of existing ones is their number;
\* the creation requests sent are as many as the missing ones in apply mode
\* and none in plan mode; the counter of creations of forms, prompts and
\* workflows is the number of missing ones in both modes (in plan mode the
\* would-create count), that of models is 0 in plan mode; the task
\* definitions collected are the missing ones
C15_CountsWouldCreate ==
  /\ \A kind \in Counted : skipped[kind] = Cardinality(ExistingOf(run, kind))
  /\ pc = "done" =>
       /\ \A kind \in Kinds : CountedOnce(kind)
       /\ \A kind \in Counted :
            Cardinality(CreationsOfKind(run, kind))
              = IF PLAN THEN 0 ELSE Cardinality(MissingOf(run, kind))
       /\ \A kind \in {"form", "prompt", "workflow"} :
            /\ created[kind] = Cardinality(MissingOf(run, kind))
            /\ PLAN => Cardinality({k \in 1..Len(suppressed[run]) :
                                      suppressed[run][k].kind = kind})
                         = Cardinality(MissingOf(run, kind))
       /\ created["model"] = IF PLAN THEN 0 ELSE Cardinality(MissingOf(run, "model"))
       /\ Len(missingTaskDefs) = Cardinality(MissingOf(run, "taskdef"))
       /\ {missingTaskDefs[k].name : k \in 1..Len(missingTaskDefs)}
            = {v[3] : v \in MissingOf(run, "taskdef")}

C15_Witness ==
  /\ PLAN
  /\ pc = "done"
  /\ created["form"] = 1
  /\ skipped["form"] = 1
  /\ Cardinality(MissingOf(run, "form")) = 1
  /\ CreationsIn(run) = {}

\* positions in sent[r] of the listings of templates, and of any other GET
\* about forms
ListingsOf(r) ==
  {k \in ChecksOf(r, "form") : sent[r][k].url = "/human/template" /\ sent[r][k].idx = 0}
FormGetsOf(r) == ChecksOf(r, "form") \ ListingsOf(r)

\* the names a listing answered: those of the templates on the server when
\* the status is 2xx, none otherwise
Listed(r, k) ==
  IF resOk(sent[r][k].status)
  THEN {x[2] : x \in {y \in remoteAt[r] : y[1] = "form"}}
  ELSE {}

\* C16: a run sends at most one listing of templates, however many forms
\* there are, and no GET for a single form; a form is given a verdict only
\* after the listing, and the verdict is "exists" exactly when the name of
\* the form is among the names that listing answered
C16_FormsListThenMatch ==
  /\ Cardinality(ListingsOf(run)) <= 1
  /\ FormGetsOf(run) = {}
  /\ \A q \in RangeOf(inFlight) : q.kind = "form" /\ q.m = "GET" => ListingsOf(run) = {}
  /\ \A v \in verdict[run] :
       v[1] = "form" =>
         /\ Cardinality(ListingsOf(run)) = 1
         /\ \A k \in ListingsOf(run) :
              /\ v[4] <=> v[3] \in Listed(run, k)
              /\ \A c \in CreationsOfKind(run, "form") : k < c

C16_Witness ==
  /\ pc = "done"
  /\ ~PLAN
  /\ Len(fsys.forms) = 2
  /\ Cardinality(ListingsOf(run)) = 1
  /\ \E v \in verdict[run] : v[1] = "form" /\ v[2] = 1 /\ ~v[4]
  /\ \E v \in verdict[run] : v[1] = "form" /\ v[2] = 2 /\ v[4]
  /\ Cardinality(CreationsOfKind(run, "form")) = 1

\* C17: in plan mode the integration and every model get the verdict
\* "missing" whatever is on the server, no request about them is sent or
\* swallowed, and once the models pass is over each of them has that
\* verdict
C17_PlanOpenAiAlwaysMissing ==
  PLAN =>
    /\ \A v \in verdict[run] : v[1] \in {"integration", "model"} => ~v[4]
    /\ NoCallsOf("integration") /\ NoCallsOf("model")
    /\ \A q \in RangeOf(inFlight) : q.kind \notin {"integration", "model"}
    /\ (pc \in PastTasks \cup {"tasks"} /\ ~cfg.NO_OPENAI) =>
         /\ Cardinality(MissingOf(run, "integration")) = 1
         /\ {v[2] : v \in MissingOf(run, "model")} = 1..Len(cfg.models)
         /\ created["model"] = 0 /\ skipped["model"] = 0

C17_Witness ==
  /\ PLAN
  /\ pc = "done"
  /\ ~cfg.NO_OPENAI
  /\ Len(cfg.models) >= 1
  /\ <<"integration", openaiIntegrationName>> \in remote
  /\ <<"model", cfg.models[1]>> \in remote
  /\ <<"model", 1, cfg.models[1], FALSE>> \in verdict[run]

\* positions in sent[r] of the version checks, and of those answered 200
VersionChecks(r) == {k \in 1..Len(sent[r]) : sent[r][k].url = "/version"}
VersionOk(r) == {k \in VersionChecks(r) : sent[r][k].status = 200}

\* C18: a request about a resource of any kind is made, swallowed or
\* answered, and a verdict is given, only in a run whose version check has
\* been answered 200 before; a version check that fails is the last request
\* of its run, which is over with exit code 1 and has changed nothing on
\* the server
C18_ConnectivityGate ==
  /\ Cardinality(VersionChecks(run)) <= 1
  /\ \A k \in 1..Len(sent[run]) :
       sent[run][k].kind \in Kinds => \E a \in VersionOk(run) : a < k
  /\ (\/ \E q \in RangeOf(inFlight) \cup RangeOf(suppressed[run]) : q.kind \in Kinds
      \/ verdict[run] # {}
      \/ pc \notin {"auth", "version", "aborted"})
       => VersionOk(run) # {}
  /\ \A k \in VersionChecks(run) \ VersionOk(run) :
       /\ k = Len(sent[run])
       /\ pc = "aborted"
       /\ outcome[run] = "aborted"
       /\ inFlight = << >>
       /\ remote = remoteAt[run]
       /\ verdict[run] = {}

C18_Witness ==
  /\ pc = "aborted"
  /\ cfg.accessToken = ""
  /\ Len(sent[run]) = 2
  /\ sent[run][2].url = "/version"
  /\ sent[run][2].status = 500
  /\ error.msg = "http"

\* the run is over: main() returned, or main().catch exited
Ended == pc \in {"done", "aborted"}

\* the most requests a run sends: the token exchange, the version check
\* and the user lookup, then a check and a creation for each descriptor
\* (task definitions: a check each and one batch; forms: one listing and a
\* creation each)
CallBound ==
  3 + 2 * Processed("integration") + 2 * Processed("model")
    + (Len(WORKER_TASKS) + 1) + (1 + Processed("form"))
    + 2 * Processed("prompt") + 2 * Processed("workflow")

\* a call the run cannot do without: the token exchange, the version check
IsRequired(q) == q.url \in {"/token", "/version"}

EndsOnce ==
  /\ pc = "done" <=> outcome[run] = "done"
  /\ pc = "aborted" <=> outcome[run] = "aborted"
  /\ Ended => inFlight = << >> /\ Due = NoReq
  /\ Len(sent[run]) + Len(inFlight) <= CallBound
  /\ pc = "done" =>
       \A k \in 1..Len(sent[run]) :
         /\ ~FailedCreation(sent[run][k])
         /\ IsRequired(sent[run][k]) => sent[run][k].status = 200
  /\ pc = "aborted" => error.msg # ""

\* C19: when every call is answered, every run ends, completed or aborted
\* and never both; once it has ended nothing more happens; it sends no more
\* requests than the desired set calls for; and it ends completed only if
\* no creation call, token exchange or version check failed
C19_Termination ==
  /\ <>Ended
  /\ []EndsOnce
  /\ [][~Ended]_vars

C19_Witness ==
  /\ pc = "done"
  /\ ~PLAN
  /\ cfg.accessToken = ""
  /\ Len(sent[run]) = CallBound
  /\ faults[run] = 0

\* positions in sent[r] of the user lookup, and of those that failed
UserLookups(r) == {k \in 1..Len(sent[r]) : sent[r][k].url = "/token/userInfo"}
UserLookupFailed(r) == \E k \in UserLookups(r) : sent[r][k].status # 200

\* the ownerEmail of every task definition collected or submitted so far
OwnerEmails ==
  {missingTaskDefs[k].ownerEmail : k \in 1..Len(missingTaskDefs)}
  \cup UNION {{q.body[k].ownerEmail : k \in 1..Len(q.body)} : q \in Calls}

\* what a completed run has checked and created, whatever the lookup
\* answered: every processed descriptor has its verdict, and the creation
\* requests made or swallowed are about the missing ones of every kind
\* (in plan mode none about the integration and the models)
ChecksAndCreationsAsDue ==
  /\ \A kind \in Kinds : CountedOnce(kind)
  /\ \A kind \in Kinds :
       UNION {{<<kind, n>> : n \in q.names} :
                q \in {c \in Calls : IsCreation(c) /\ c.kind = kind}}
         = IF PLAN /\ kind \in {"integration", "model"} THEN {}
           ELSE {<<kind, v[3]>> : v \in MissingOf(run, kind)}

\* C20: the user lookup is made once in a run; when it fails the run is not
\* ended by it and goes on to the integration; the run then checks and
\* creates what it is due to; every task definition collected or submitted
\* carries ownerEmail "unknown" when the lookup failed or answered no id,
\* and the id looked up otherwise
C20_UserInfoFailureFrame ==
  /\ Cardinality(UserLookups(run)) <= 1
  /\ pc = "aborted" => error.at # UserInfoReq
  /\ UserLookups(run) # {} =>
       /\ pc \notin {"auth", "version", "userInfo"}
       /\ UserLookupFailed(run) => userInfo = ""
       /\ OwnerEmails \subseteq {IF userInfo = "" THEN "unknown" ELSE userInfo}
  /\ pc = "done" => ChecksAndCreationsAsDue

C20_Witness ==
  /\ pc = "done"
  /\ ~PLAN
  /\ UserLookupFailed(run)
  /\ <<"taskdef", WORKER_TASKS[1]>> \in remoteAt[run]
  /\ \E k \in CreationsOfKind(run, "taskdef") :
       /\ Len(sent[run][k].body) = 1
       /\ sent[run][k].body[1].name = WORKER_TASKS[2]
       /\ sent[run][k].body[1].ownerEmail = "unknown"
====
